---- MODULE Spec2Model ----
(***************************************************************************)
(* Position analysis of a planar four-bar linkage, as computed by          *)
(* pyscript/generate_figures.py: the closed-form initial guess             *)
(* (analytical_solution), the Newton-Raphson solver (newton_raphson_4bar)  *)
(* and the continuation sweep of generate_figure_a /                       *)
(* generate_combined_figure.                                               *)
(*                                                                         *)
(* The script computes in IEEE-754 binary floating point (numpy.float64).  *)
(* The model computes in the same arithmetic at a reduced significand      *)
(* width: a number is a sign, a significand of Prec bits and an exponent,  *)
(* every operation rounds its exact result to nearest with ties to even,   *)
(* a division by zero yields an infinity or a NaN and a comparison with a  *)
(* NaN is false, as numpy does.  The exponent is not bounded (no overflow  *)
(* to infinity, no subnormals) and zero carries no sign.                   *)
(***************************************************************************)
EXTENDS Integers, Sequences, FiniteSets, TLC

(***************************************************************************)
(* Floating point                                                          *)
(***************************************************************************)

\* Width of the significand, in bits.
Prec == 24

Abs(x) == IF x < 0 THEN -x ELSE x

Sgn(x) == IF x < 0 THEN -1 ELSE IF x > 0 THEN 1 ELSE 0

\* Number of bits of x, 0 <= x < 2^31: the powers of two that x reaches.
BitLen(x) == Cardinality({n \in 0..30 : 2^n <= x})

NaN == [k |-> "nan", m |-> 0, e |-> 0]

Inf(s) == [k |-> "inf", m |-> s, e |-> 0]

Zero == [k |-> "fin", m |-> 0, e |-> 0]

\* The finite number m * 2^e, m of Prec bits.
Fin(m, e) == [k |-> "fin", m |-> m, e |-> e]

\* 2^j
TwoPow(j) == Fin(2^(Prec - 1), j - (Prec - 1))

One == Fin(2^(Prec - 1), 1 - Prec)

IsNaN(a) == a.k = "nan"

IsInf(a) == a.k = "inf"

IsFinite(a) == a.k = "fin"

IsZero(a) == a.k = "fin" /\ a.m = 0

\* A significand that rounding up has carried to 2^Prec.
RoundCarry(s, q, e) ==
    IF q = 2^Prec THEN Fin(s * 2^(Prec - 1), e + 1) ELSE Fin(s * q, e)

\* q + r / (2 * half), rounded to an integer: ties to even.
RoundNearest(s, q, r, half, sticky, e) ==
    RoundCarry(s, IF r > half \/ (r = half /\ (sticky \/ q % 2 = 1)) THEN q + 1 ELSE q, e)

\* Round, for m > 0 of n bits.
RoundBits(s, m, sticky, e, n) ==
    IF n <= Prec THEN Fin(s * m * 2^(Prec - n), e - (Prec - n))
    ELSE RoundNearest(s, m \div 2^(n - Prec), m % 2^(n - Prec), 2^(n - Prec - 1),
                      sticky, e + (n - Prec))

\* The number nearest to s * (m + d) * 2^e, where m >= 0 and 0 < d < 1 if
\* sticky and d = 0 otherwise; a tie goes to the even significand.
Round(s, m, sticky, e) ==
    IF m = 0 THEN Zero ELSE RoundBits(s, m, sticky, e, BitLen(m))

\* The number nearest to the integer n.
FromInt(n) == Round(Sgn(n), Abs(n), FALSE, 0)

FNeg(a) == [a EXCEPT !.m = -a.m]

FAbs(a) == [a EXCEPT !.m = Abs(a.m)]

\* The sum a + b of finite numbers, b's significand shifted right by sh
\* bits below three guard bits of a's.
AddShifted(a, b, sh) ==
    IF Sgn(b.m) = Sgn(a.m)
    THEN Round(Sgn(a.m), Abs(a.m) * 8 + Abs(b.m) \div 2^sh,
               Abs(b.m) % 2^sh # 0, a.e - 3)
    ELSE Round(Sgn(a.m),
               Abs(a.m) * 8 - Abs(b.m) \div 2^sh
                 - (IF Abs(b.m) % 2^sh # 0 THEN 1 ELSE 0),
               Abs(b.m) % 2^sh # 0, a.e - 3)

\* The exact sum, as an integer at b's exponent.
AddExact(sum, e) == Round(Sgn(sum), Abs(sum), FALSE, e)

\* Sum of two finite nonzero numbers, a.e >= b.e.
AddFin(a, b) ==
    IF a.e - b.e > Prec + 2 THEN a
    ELSE IF a.e - b.e <= 3 THEN AddExact(a.m * 2^(a.e - b.e) + b.m, b.e)
    ELSE AddShifted(a, b, a.e - b.e - 3)

\* Sum with a NaN, an infinity or a zero.
AddSpecial(a, b) ==
    IF IsNaN(a) \/ IsNaN(b) THEN NaN
    ELSE IF IsInf(a) THEN (IF IsInf(b) /\ b.m # a.m THEN NaN ELSE a)
    ELSE IF IsInf(b) THEN b
    ELSE IF a.m = 0 THEN b
    ELSE a

FAdd(a, b) ==
    IF \/ a.k # "fin" \/ a.m = 0
       \/ b.k # "fin" \/ b.m = 0
    THEN AddSpecial(a, b)
    ELSE IF a.e >= b.e THEN AddFin(a, b) ELSE AddFin(b, a)

FSub(a, b) == IF b.k = "nan" THEN NaN ELSE FAdd(a, FNeg(b))

\* Half the width of a significand, and 2^Half.
Half == Prec \div 2

HalfPow == 2^Half

\* top * HalfPow^2 + bot, handed to Round with two more bits than top.
MulRound(s, top, bot, e) ==
    Round(s, top * 4 + bot \div ((HalfPow * HalfPow) \div 4),
          bot % ((HalfPow * HalfPow) \div 4) # 0, e + 2 * Half - 2)

\* hi * HalfPow^2 + mid * HalfPow + lo, as top * HalfPow^2 + bot.
MulCarry(s, hi, mid, low, e) ==
    MulRound(s, hi + mid \div HalfPow + low \div (HalfPow * HalfPow),
             low % (HalfPow * HalfPow), e)

\* The product of the significands ah * HalfPow + al and bh * HalfPow + bl.
MulHalves(s, ah, al, bh, bl, e) ==
    MulCarry(s, ah * bh, ah * bl + al * bh,
             ((ah * bl + al * bh) % HalfPow) * HalfPow + al * bl, e)

\* Product of two finite nonzero numbers.
MulFin(a, b) ==
    MulHalves(Sgn(a.m) * Sgn(b.m), Abs(a.m) \div HalfPow, Abs(a.m) % HalfPow,
              Abs(b.m) \div HalfPow, Abs(b.m) % HalfPow, a.e + b.e)

\* Product with a NaN, an infinity or a zero.
MulSpecial(a, b) ==
    IF IsNaN(a) \/ IsNaN(b) THEN NaN
    ELSE IF IsInf(a) \/ IsInf(b)
         THEN (IF IsZero(a) \/ IsZero(b) THEN NaN ELSE Inf(Sgn(a.m) * Sgn(b.m)))
    ELSE Zero

FMul(a, b) ==
    IF \/ a.k # "fin" \/ a.m = 0
       \/ b.k # "fin" \/ b.m = 0
    THEN MulSpecial(a, b)
    ELSE MulFin(a, b)

\* The bits of quotient that one step of the long division yields: a
\* remainder (below 2^Prec) shifted by as many stays below 2^31.
DivChunk == 31 - Prec

\* k more quotient bits of the division by d, from the quotient qr[1] and
\* the remainder qr[2] so far.
DivStep(qr, d, k) == <<qr[1] * 2^k + (qr[2] * 2^k) \div d, (qr[2] * 2^k) % d>>

\* Long division: n more quotient bits; with no remainder left the bits to
\* come are zeros.
RECURSIVE DivBits(_, _, _)
DivBits(qr, d, n) ==
    CASE qr[2] = 0 -> <<qr[1] * 2^n, 0>>
      [] qr[2] # 0 /\ n <= DivChunk -> DivStep(qr, d, n)
      [] qr[2] # 0 /\ n > DivChunk -> DivBits(DivStep(qr, d, DivChunk), d, n - DivChunk)

\* The quotient qr[1] with remainder qr[2], rounded.
DivRound(s, qr, e) == Round(s, qr[1], qr[2] # 0, e)

\* Quotient of two finite nonzero numbers.
DivFin(a, b) ==
    DivRound(Sgn(a.m) * Sgn(b.m),
             DivBits(<<Abs(a.m) \div Abs(b.m), Abs(a.m) % Abs(b.m)>>, Abs(b.m), Prec + 2),
             a.e - b.e - (Prec + 2))

\* Quotient with a NaN, an infinity or a zero.
DivSpecial(a, b) ==
    IF IsNaN(a) \/ IsNaN(b) THEN NaN
    ELSE IF IsInf(a) THEN (IF IsInf(b) THEN NaN
                           ELSE Inf(a.m * (IF b.m < 0 THEN -1 ELSE 1)))
    ELSE IF IsInf(b) THEN Zero
    ELSE IF b.m = 0 THEN (IF a.m = 0 THEN NaN ELSE Inf(Sgn(a.m)))
    ELSE Zero

FDiv(a, b) ==
    IF \/ a.k # "fin" \/ a.m = 0
       \/ b.k # "fin" \/ b.m = 0
    THEN DivSpecial(a, b)
    ELSE DivFin(a, b)

\* Square root, digit by digit: q the root so far, r the remainder, w the
\* number of bits of the radicand x not yet used, n the pairs of bits to come.
RECURSIVE SqrtBits(_, _, _, _, _)
SqrtBits(q, r, x, w, n) ==
    CASE n = 0 -> <<q, r>>
      [] n # 0 /\ 4 * r + (IF w >= 2 THEN (x \div 2^(w - 2)) % 4 ELSE 0) >= 4 * q + 1 ->
            SqrtBits(2 * q + 1,
                     4 * r + (IF w >= 2 THEN (x \div 2^(w - 2)) % 4 ELSE 0) - (4 * q + 1),
                     x, IF w >= 2 THEN w - 2 ELSE 0, n - 1)
      [] n # 0 /\ 4 * r + (IF w >= 2 THEN (x \div 2^(w - 2)) % 4 ELSE 0) < 4 * q + 1 ->
            SqrtBits(2 * q, 4 * r + (IF w >= 2 THEN (x \div 2^(w - 2)) % 4 ELSE 0),
                     x, IF w >= 2 THEN w - 2 ELSE 0, n - 1)

\* The root of x * 2^e, e even, x of at most w bits, w even.
SqrtEven(x, e, w) ==
    DivRound(1, SqrtBits(0, 0, x, w, Prec + 2), (e - (2 * (Prec + 2) - w)) \div 2)

SqrtFin(a) ==
    IF a.e % 2 = 1 THEN SqrtEven(a.m * 2, a.e - 1, 2 * ((BitLen(a.m * 2) + 1) \div 2))
    ELSE SqrtEven(a.m, a.e, 2 * ((BitLen(a.m) + 1) \div 2))

\* Root of a NaN, an infinity, a negative number or a zero.
SqrtSpecial(a) ==
    IF IsNaN(a) THEN NaN
    ELSE IF IsInf(a) THEN (IF a.m > 0 THEN a ELSE NaN)
    ELSE IF a.m < 0 THEN NaN
    ELSE Zero

FSqrt(a) == IF a.k # "fin" \/ a.m <= 0 THEN SqrtSpecial(a) ELSE SqrtFin(a)

\* a < b for finite numbers.
LtFin(a, b) ==
    IF Sgn(a.m) # Sgn(b.m) THEN Sgn(a.m) < Sgn(b.m)
    ELSE IF a.m = 0 THEN FALSE
    ELSE IF a.m > 0 THEN (a.e < b.e \/ (a.e = b.e /\ a.m < b.m))
    ELSE (a.e > b.e \/ (a.e = b.e /\ a.m < b.m))

\* a < b; false when either is a NaN.
FLt(a, b) ==
    IF IsNaN(a) \/ IsNaN(b) THEN FALSE
    ELSE IF IsInf(a) THEN a.m < 0 /\ ~(IsInf(b) /\ b.m < 0)
    ELSE IF IsInf(b) THEN b.m > 0
    ELSE LtFin(a, b)

\* The number nearest to the rational n / d.
FromRat(n, d) == FDiv(FromInt(n), FromInt(d))

(***************************************************************************)
(* Elementary functions (numpy's cos, sin, arctan, radians, degrees),      *)
(* evaluated in the arithmetic above: argument reduction by multiples of   *)
(* pi/2, then the Taylor series on [-pi/4, pi/4].                          *)
(***************************************************************************)

\* pi, from its first 30 bits.
PiF == Round(1, 843314857, FALSE, -28)

\* What PiF leaves of those 30 bits.
PiLo == AddExact(843314857 - PiF.m * 2^(PiF.e + 28), -28)

\* 1 - y/(first(first+1)) * (1 - y/((first+2)(first+3)) * (...)), summed from
\* its innermost factor outward: acc is the factor that follows the term of
\* n (a sum that is not a number stays so).  cos x from first = 1 and
\* sin x / x from first = 2, with y = x^2.
RECURSIVE Series(_, _, _, _)
Series(y, n, first, acc) ==
    IF n < first \/ IsNaN(acc) THEN acc
    ELSE Series(y, n - 2, first, FSub(One, FMul(FDiv(y, FromInt(n * (n + 1))), acc)))

\* sin r and cos r for r in [-pi/4, pi/4].
SinPoly(r) == IF IsNaN(r) THEN NaN ELSE FMul(r, Series(FMul(r, r), 8, 2, One))

CosPoly(r) == IF IsNaN(r) THEN NaN ELSE Series(FMul(r, r), 9, 1, One)

\* c = pi * 2^j (in two parts) taken from t, toward zero.
LessTurns(t, j) ==
    IF t.m > 0 THEN FSub(FSub(t, FMul(PiF, TwoPow(j))), FMul(PiLo, TwoPow(j)))
    ELSE FAdd(FAdd(t, FMul(PiF, TwoPow(j))), FMul(PiLo, TwoPow(j)))

\* A finite t less whole turns, into [-pi, pi]: each step takes the
\* largest 2 pi * 2^i that t holds (one turn from a t below two turns).
RECURSIVE ReduceTurns(_)
ReduceTurns(t) ==
    IF ~FLt(PiF, FAbs(t)) THEN t
    ELSE ReduceTurns(LessTurns(t, IF t.e <= PiF.e + 1 THEN 1
                                  ELSE IF Abs(t.m) >= PiF.m THEN t.e - PiF.e
                                  ELSE t.e - PiF.e - 1))

\* The k for which k * pi/2 is the multiple of pi/2 nearest to t in [-pi, pi].
Quadrant(t) ==
    IF FLt(FAbs(t), FMul(PiF, TwoPow(-2))) THEN 0
    ELSE IF FLt(FAbs(t), FMul(FromInt(3), FMul(PiF, TwoPow(-2)))) THEN Sgn(t.m)
    ELSE 2 * Sgn(t.m)

\* t less k quarter turns.
ReduceQuarter(t, k) ==
    FSub(FSub(t, FMul(FromInt(k), FMul(PiF, TwoPow(-1)))),
         FMul(FromInt(k), FMul(PiLo, TwoPow(-1))))

\* sin(r + k pi/2)
SinQuarter(k, r) ==
    IF k = 0 \/ k = 2 \/ k = -2
    THEN (IF k = 0 THEN SinPoly(r) ELSE FNeg(SinPoly(r)))
    ELSE (IF k = 1 THEN CosPoly(r) ELSE FNeg(CosPoly(r)))

\* cos(r + k pi/2)
CosQuarter(k, r) ==
    IF k = 0 \/ k = 2 \/ k = -2
    THEN (IF k = 0 THEN CosPoly(r) ELSE FNeg(CosPoly(r)))
    ELSE (IF k = -1 THEN SinPoly(r) ELSE FNeg(SinPoly(r)))

SinReduced(t, k) == SinQuarter(k, ReduceQuarter(t, k))

CosReduced(t, k) == CosQuarter(k, ReduceQuarter(t, k))

SinTurn(t) == SinReduced(t, Quadrant(t))

CosTurn(t) == CosReduced(t, Quadrant(t))

FSin(a) == IF ~IsFinite(a) THEN NaN ELSE SinTurn(ReduceTurns(a))

FCos(a) == IF ~IsFinite(a) THEN NaN ELSE CosTurn(ReduceTurns(a))

\* 1/first - y * (1/(first+2) - y * (...)), summed from its innermost
\* factor outward: acc is the factor that follows the term of n (a sum that
\* is not a number stays so).  arctan z / z from first = 1, with y = z^2.
RECURSIVE AtanSeries(_, _, _, _)
AtanSeries(y, n, first, acc) ==
    IF n < first \/ IsNaN(acc) THEN acc
    ELSE AtanSeries(y, n - 2, first, FSub(FromRat(1, n), FMul(y, acc)))

\* arctan on [-tan(pi/8), tan(pi/8)]
AtanPoly(z) ==
    IF IsNaN(z) THEN NaN ELSE FMul(z, AtanSeries(FMul(z, z), 15, 1, FromRat(1, 17)))

\* arctan on [0, 1]: arctan(a) = pi/4 + arctan((a - 1) / (a + 1))
Atan01(a) ==
    IF FLt(FromRat(53, 128), a)
    THEN FAdd(FMul(PiF, TwoPow(-2)), AtanPoly(FDiv(FSub(a, One), FAdd(a, One))))
    ELSE AtanPoly(a)

\* arctan of a finite x >= 0
AtanPos(x) ==
    IF FLt(One, x) THEN FSub(FMul(PiF, TwoPow(-1)), Atan01(FDiv(One, x)))
    ELSE Atan01(x)

FArctan(a) ==
    IF IsNaN(a) THEN NaN
    ELSE IF IsInf(a) THEN FMul(FromInt(a.m), FMul(PiF, TwoPow(-1)))
    ELSE IF a.m < 0 THEN FNeg(AtanPos(FAbs(a))) ELSE AtanPos(a)

\* numpy.radians and numpy.degrees
FRadians(a) == FMul(a, FDiv(PiF, FromInt(180)))

FDegrees(a) == FMul(a, FDiv(FromInt(180), PiF))

(***************************************************************************)
(* Values and inputs                                                       *)
(***************************************************************************)

\* Python's None, among the numbers.
None == [k |-> "none", m |-> 0, e |-> 0]

\* Link lengths a, b, c, d scaled by 2^k.
Linkage(a, b, c, d, k) ==
    [r1 |-> FMul(FromInt(a), TwoPow(k)), r2 |-> FMul(FromInt(b), TwoPow(k)),
     r3 |-> FMul(FromInt(c), TwoPow(k)), r4 |-> FMul(FromInt(d), TwoPow(k))]

\* The linkage of the figures (r1, r2, r3, r4 = 6, 2, 5, 5), and the same
\* linkage 2^16 times smaller, whose residuals the arithmetic resolves well
\* below the tolerance.
FigureLinkage == Linkage(6, 2, 5, 5, 0)

SmallLinkage == Linkage(6, 2, 5, 5, -16)

\* Input crank angles of a single solve, in degrees.
SolveTheta2 == {FromInt(0), FromInt(45)}

\* Initial guesses of a single solve: (theta3, theta4) on a grid of
\* GuessStep degrees, and a guess that is not a number.
GuessStep == 45

GuessDegrees == {d \in -180..180 : d % GuessStep = 0}

SolveGuesses ==
    {<<FRadians(FromInt(a)), FRadians(FromInt(b))>> : a \in {0, 45}, b \in GuessDegrees}
    \cup {<<NaN, NaN>>}

\* Linkages swept: those above, two that no closed-form guess exists for at
\* some crank angle, and one whose closed form divides by zero.
SweepLinkages ==
    {FigureLinkage, SmallLinkage, Linkage(1, 3, 4, 6, -16), Linkage(3, 4, 2, 3, -16),
     Linkage(2, 2, 1, 1, -16)}

\* Crank angles swept, in degrees, and the longest sweep.
SweepTheta2 == {FromInt(0), FromInt(180)}

MaxSamples == 3

RECURSIVE SeqsOf(_, _)
SeqsOf(S, n) ==
    IF n = 0 THEN {<<>>}
    ELSE {Append(s, x) : s \in SeqsOf(S, n - 1), x \in S}

SweepRanges == UNION {SeqsOf(SweepTheta2, n) : n \in 1..MaxSamples}

(***************************************************************************)
(* analytical_solution                                                     *)
(***************************************************************************)

\* The frame of a call that is not running: None where the call has
\* assigned nothing.
NoAnalytical ==
    [pc |-> "idle", r |-> Linkage(0, 0, 0, 0, 0), theta2 |-> None,
     K1 |-> None, K2 |-> None, K3 |-> None,
     A |-> None, B |-> None, C |-> None, discriminant |-> None, theta4 |-> None,
     K4 |-> None, K5 |-> None, D |-> None, E |-> None, F |-> None,
     discriminant2 |-> None, theta3 |-> None, ret |-> <<>>]

\* The frame on entry: theta2, K1, K2 and K3.
AnalyticalCall(r, theta2_deg) ==
    [NoAnalytical EXCEPT
        !.pc = "ABC", !.r = r, !.theta2 = FRadians(theta2_deg),
        !.K1 = FDiv(r.r1, r.r2), !.K2 = FDiv(r.r1, r.r4),
        !.K3 = FDiv(FSub(FAdd(FAdd(FMul(r.r1, r.r1), FMul(r.r2, r.r2)), FMul(r.r3, r.r3)),
                         FMul(r.r4, r.r4)),
                    FMul(FMul(FromInt(2), r.r2), r.r3))]

\* b**2 - 4 * a * c
Discriminant(a, b, c) == FSub(FMul(b, b), FMul(FMul(FromInt(4), a), c))

\* 2 * arctan(num / (2 * a))
HalfAngle(num, a) == FMul(FromInt(2), FArctan(FDiv(num, FMul(FromInt(2), a))))

AnalyticalABC(fr) ==
    [fr EXCEPT !.pc = "discriminant",
               !.A = FAdd(FSub(FSub(FCos(fr.theta2), fr.K1), FMul(fr.K2, FCos(fr.theta2))),
                          fr.K3),
               !.B = FMul(FromInt(-2), FSin(fr.theta2)),
               !.C = FAdd(FSub(fr.K1, FMul(FAdd(fr.K2, One), FCos(fr.theta2))), fr.K3)]

\* if discriminant < 0: return None, None
AnalyticalFirst(fr) ==
    IF FLt(fr.discriminant, Zero) THEN [fr EXCEPT !.pc = "returned", !.ret = <<None, None>>]
    ELSE [fr EXCEPT !.pc = "theta4"]

AnalyticalDiscriminant(fr) ==
    AnalyticalFirst([fr EXCEPT !.discriminant = Discriminant(fr.A, fr.B, fr.C)])

\* theta4 of the open configuration (theta4_solution1; the script computes
\* theta4_solution2 as well and does not use it), K4 and K5.
AnalyticalTheta4(fr) ==
    [fr EXCEPT !.pc = "DEF",
               !.theta4 = HalfAngle(FAdd(FNeg(fr.B), FSqrt(fr.discriminant)), fr.A),
               !.K4 = FDiv(fr.r.r1, fr.r.r3),
               !.K5 = FDiv(FSub(FSub(FSub(FMul(fr.r.r4, fr.r.r4), FMul(fr.r.r1, fr.r.r1)),
                                     FMul(fr.r.r2, fr.r.r2)), FMul(fr.r.r3, fr.r.r3)),
                           FMul(FMul(FromInt(2), fr.r.r2), fr.r.r3))]

AnalyticalDEF(fr) ==
    [fr EXCEPT !.pc = "discriminant2",
               !.D = FAdd(FAdd(FSub(FCos(fr.theta2), fr.K1), FMul(fr.K4, FCos(fr.theta4))),
                          fr.K5),
               !.E = FMul(FromInt(-2), FSin(fr.theta2)),
               !.F = FAdd(FAdd(fr.K1, FMul(FSub(fr.K4, One), FCos(fr.theta4))), fr.K5)]

\* if discriminant2 < 0: return theta4, None
AnalyticalSecond(fr) ==
    IF FLt(fr.discriminant2, Zero)
    THEN [fr EXCEPT !.pc = "returned", !.ret = <<fr.theta4, None>>]
    ELSE [fr EXCEPT !.pc = "theta3"]

AnalyticalDiscriminant2(fr) ==
    AnalyticalSecond([fr EXCEPT !.discriminant2 = Discriminant(fr.D, fr.E, fr.F)])

\* return theta3, theta4
AnalyticalReturn(fr) == [fr EXCEPT !.pc = "returned", !.ret = <<fr.theta3, fr.theta4>>]

AnalyticalTheta3(fr) ==
    AnalyticalReturn(
        [fr EXCEPT !.theta3 = HalfAngle(FSub(FNeg(fr.E), FSqrt(fr.discriminant2)), fr.D)])

(***************************************************************************)
(* newton_raphson_4bar                                                     *)
(***************************************************************************)

\* Variant of tol: 1e-6.
tol_loose == FromRat(1, 1000000)

tol == FromRat(1, 1000000000)

max_iter == 100

\* The threshold of the determinant (the literal 1e-9 of the singularity test).
det_tol == FromRat(1, 1000000000)

\* The residuals of the loop-closure equations.
F1(r, theta2, theta3, theta4) ==
    FSub(FSub(FAdd(FMul(r.r2, FCos(theta2)), FMul(r.r3, FCos(theta3))),
              FMul(r.r4, FCos(theta4))), r.r1)

F2(r, theta2, theta3, theta4) ==
    FSub(FAdd(FMul(r.r2, FSin(theta2)), FMul(r.r3, FSin(theta3))),
         FMul(r.r4, FSin(theta4)))

ErrorNorm(f1, f2) == FSqrt(FAdd(FMul(f1, f1), FMul(f2, f2)))

\* Variant of WithinTol: "or" for "and".
WithinTolEither(f1, f2) == FLt(FAbs(f1), tol) \/ FLt(FAbs(f2), tol)

\* abs(f1) < tol and abs(f2) < tol
WithinTol(f1, f2) == FLt(FAbs(f1), tol) /\ FLt(FAbs(f2), tol)

\* abs(det) < 1e-9
IsSingular(det) == FLt(FAbs(det), det_tol)

\* The frame of a call that is not running.  Besides the locals of the
\* function the frame keeps a record of the run that the function does not:
\* at_start, the angles held when the current iteration began; evals and
\* updates, the residual evaluations and Newton updates done so far; exit,
\* which return statement ended the call.
NoCall ==
    [pc |-> "idle", r |-> Linkage(0, 0, 0, 0, 0), theta2_deg |-> Zero,
     init_guess |-> <<Zero, Zero>>,
     theta2 |-> Zero, theta3 |-> Zero, theta4 |-> Zero, track_convergence |-> FALSE,
     history |-> <<>>, iteration |-> 0, f1 |-> Zero, f2 |-> Zero,
     error_norm |-> Zero, J11 |-> Zero, J12 |-> Zero, J21 |-> Zero, J22 |-> Zero,
     det |-> Zero, ret |-> <<>>,
     at_start |-> <<Zero, Zero>>, evals |-> 0, updates |-> 0, exit |-> "none"]

\* The frame on entry to the loop: the arguments bound, theta2 converted, the
\* guess unpacked, the history empty (None without tracking); the locals of
\* the loop body hold no value yet (they are written before they are read).
NRCall(r, theta2_deg, init_guess, track_convergence) ==
    [NoCall EXCEPT !.pc = IF 0 < max_iter THEN "eval" ELSE "exhausted",
                   !.r = r, !.theta2_deg = theta2_deg, !.init_guess = init_guess,
                   !.theta2 = FRadians(theta2_deg),
                   !.theta3 = init_guess[1], !.theta4 = init_guess[2],
                   !.track_convergence = track_convergence,
                   !.history = IF track_convergence THEN <<>> ELSE None]

\* return theta3, theta4, converged[, history]
NRReturn(fr, converged, exit) ==
    [fr EXCEPT !.pc = "returned", !.exit = exit,
               !.ret = IF fr.track_convergence
                       THEN <<fr.theta3, fr.theta4, converged, fr.history>>
                       ELSE <<fr.theta3, fr.theta4, converged>>]

\* error_norm of the residuals just evaluated.
NRNorm(fr) == [fr EXCEPT !.pc = "track", !.error_norm = ErrorNorm(fr.f1, fr.f2)]

\* The head of an iteration: f1 and f2 of the current angles.
NREval(fr) ==
    NRNorm([fr EXCEPT !.f1 = F1(fr.r, fr.theta2, fr.theta3, fr.theta4),
                      !.f2 = F2(fr.r, fr.theta2, fr.theta3, fr.theta4),
                      !.at_start = <<fr.theta3, fr.theta4>>, !.evals = @ + 1])

\* Variant of NRTrack: the entry is appended after the convergence check
\* has failed, so the iteration that converges leaves none.
NRTrackAfterCheck(fr) ==
    [fr EXCEPT !.pc = "check",
               !.history = IF fr.track_convergence /\ ~WithinTol(fr.f1, fr.f2)
                           THEN Append(@, <<fr.iteration, fr.error_norm>>) ELSE @]

\* if track_convergence: history.append((iteration, error_norm))
NRTrack(fr) ==
    [fr EXCEPT !.pc = "check",
               !.history = IF fr.track_convergence
                           THEN Append(@, <<fr.iteration, fr.error_norm>>) ELSE @]

\* Variant of NRCheck: the convergence test is made only when tracking.
NRCheckWhenTracking(fr) ==
    IF fr.track_convergence /\ WithinTol(fr.f1, fr.f2)
    THEN NRReturn(fr, TRUE, "converged")
    ELSE [fr EXCEPT !.pc = "jacobian"]

\* The convergence test and its return.
NRCheck(fr) ==
    IF WithinTol(fr.f1, fr.f2) THEN NRReturn(fr, TRUE, "converged")
    ELSE [fr EXCEPT !.pc = "jacobian"]

\* Variant of NRSingular: no singularity test.
NRSingularUntested(fr) == [fr EXCEPT !.pc = "update"]

\* The singularity test and its return.
NRSingular(fr) ==
    IF IsSingular(fr.det) THEN NRReturn(fr, FALSE, "singular")
    ELSE [fr EXCEPT !.pc = "update"]

NRDet(fr) ==
    NRSingular([fr EXCEPT !.det = FSub(FMul(fr.J11, fr.J22), FMul(fr.J12, fr.J21))])

\* The Jacobian and its determinant.
NRJacobian(fr) ==
    NRDet([fr EXCEPT !.J11 = FMul(FNeg(fr.r.r3), FSin(fr.theta3)),
                     !.J12 = FMul(fr.r.r4, FSin(fr.theta4)),
                     !.J21 = FMul(fr.r.r3, FCos(fr.theta3)),
                     !.J22 = FMul(FNeg(fr.r.r4), FCos(fr.theta4))])

\* d_theta3 and d_theta4 (Cramer's rule).
DTheta3(fr) ==
    FDiv(FSub(FMul(FNeg(fr.f1), fr.J22), FMul(FNeg(fr.f2), fr.J12)), fr.det)

DTheta4(fr) ==
    FDiv(FSub(FMul(fr.J11, FNeg(fr.f2)), FMul(fr.J21, FNeg(fr.f1))), fr.det)

\* Variant of NRUpdate: the loop runs one iteration more.
NRUpdateOneMore(fr) ==
    [fr EXCEPT !.theta3 = FAdd(@, DTheta3(fr)), !.theta4 = FAdd(@, DTheta4(fr)),
               !.updates = @ + 1,
               !.iteration = IF @ + 1 <= max_iter THEN @ + 1 ELSE @,
               !.pc = IF fr.iteration + 1 <= max_iter THEN "eval" ELSE "exhausted"]

\* The Newton update, and the loop's advance to its next iteration.
NRUpdate(fr) ==
    [fr EXCEPT !.theta3 = FAdd(@, DTheta3(fr)), !.theta4 = FAdd(@, DTheta4(fr)),
               !.updates = @ + 1,
               !.iteration = IF @ + 1 < max_iter THEN @ + 1 ELSE @,
               !.pc = IF fr.iteration + 1 < max_iter THEN "eval" ELSE "exhausted"]

\* The return after the loop.
NRExhausted(fr) == NRReturn(fr, FALSE, "exhausted")

(***************************************************************************)
(* The sweep of generate_figure_a and generate_combined_figure             *)
(***************************************************************************)

\* The guess used when the closed form gives none.
DefaultGuess == <<FRadians(FromInt(45)), FRadians(FromInt(45))>>

\* The frame of the sweep before it starts; i is the position in
\* theta2_range of the sample the loop is at.
NoSweep ==
    [pc |-> "idle", r |-> Linkage(0, 0, 0, 0, 0), theta2_range |-> <<>>,
     theta3_sol |-> <<>>, theta4_sol |-> <<>>, t3_init |-> None, t4_init |-> None,
     current_guess |-> <<None, None>>, i |-> 0]

SweepEnter(r, theta2_range) ==
    [NoSweep EXCEPT !.pc = "analytical", !.r = r, !.theta2_range = theta2_range]

\* t3_init, t4_init = <the pair analytical_solution returned>
SweepUnpack(sw, ret) ==
    [sw EXCEPT !.pc = "seed", !.t3_init = ret[1], !.t4_init = ret[2]]

\* Variant of SweepSeed: "and" for "or".
SweepSeedBothNone(sw) ==
    [sw EXCEPT !.pc = "loop", !.i = 1,
               !.current_guess = IF sw.t3_init = None /\ sw.t4_init = None
                                 THEN <<FRadians(FromInt(45)), FRadians(FromInt(45))>>
                                 ELSE <<sw.t3_init, sw.t4_init>>]

\* if t3_init is None or t4_init is None: ... else: ...
SweepSeed(sw) ==
    [sw EXCEPT !.pc = "loop", !.i = 1,
               !.current_guess = IF sw.t3_init = None \/ sw.t4_init = None
                                 THEN DefaultGuess
                                 ELSE <<sw.t3_init, sw.t4_init>>]

\* Variant of SweepRecord: a sample that fails records nothing.
SweepRecordDroppingFailed(sw, ret) ==
    IF ret[3]
    THEN [sw EXCEPT !.pc = "loop", !.i = @ + 1,
                    !.theta3_sol = Append(@, FDegrees(ret[1])),
                    !.theta4_sol = Append(@, FDegrees(ret[2])),
                    !.current_guess = <<ret[1], ret[2]>>]
    ELSE [sw EXCEPT !.pc = "loop", !.i = @ + 1]

\* Variant of SweepRecord: current_guess follows every sample, failed or not.
SweepRecordReseeding(sw, ret) ==
    IF ret[3]
    THEN [sw EXCEPT !.pc = "loop", !.i = @ + 1,
                    !.theta3_sol = Append(@, FDegrees(ret[1])),
                    !.theta4_sol = Append(@, FDegrees(ret[2])),
                    !.current_guess = <<ret[1], ret[2]>>]
    ELSE [sw EXCEPT !.pc = "loop", !.i = @ + 1,
                    !.theta3_sol = Append(@, NaN),
                    !.theta4_sol = Append(@, NaN),
                    !.current_guess = <<ret[1], ret[2]>>]

\* The body of the loop after the solver has returned ret.
SweepRecord(sw, ret) ==
    IF ret[3]
    THEN [sw EXCEPT !.pc = "loop", !.i = @ + 1,
                    !.theta3_sol = Append(@, FDegrees(ret[1])),
                    !.theta4_sol = Append(@, FDegrees(ret[2])),
                    !.current_guess = <<ret[1], ret[2]>>]
    ELSE [sw EXCEPT !.pc = "loop", !.i = @ + 1,
                    !.theta3_sol = Append(@, NaN),
                    !.theta4_sol = Append(@, NaN)]

(***************************************************************************)
(* State                                                                   *)
(***************************************************************************)

\* nr: the frame of the running (or last) call of newton_raphson_4bar.
\* sweep: the frame of the sweep.
\* an: the frame of the running (or last) call of analytical_solution.
\* analytical_calls: the arguments of the calls of analytical_solution made.
\* newton_calls: the calls of newton_raphson_4bar that have returned to the
\*   sweep, in order, each as its frame at the return.
\* first: the frame the first of two calls returned with.
VARIABLES nr, an, sweep, analytical_calls, newton_calls, first

vars == <<nr, an, sweep, analytical_calls, newton_calls, first>>

caller == <<an, sweep, analytical_calls, newton_calls, first>>

(***************************************************************************)
(* The steps of a call of newton_raphson_4bar                              *)
(***************************************************************************)

Eval == nr.pc = "eval" /\ nr' = NREval(nr) /\ UNCHANGED caller

Track == nr.pc = "track" /\ nr' = NRTrack(nr) /\ UNCHANGED caller

Check == nr.pc = "check" /\ nr' = NRCheck(nr) /\ UNCHANGED caller

Jacobian == nr.pc = "jacobian" /\ nr' = NRJacobian(nr) /\ UNCHANGED caller

Update == nr.pc = "update" /\ nr' = NRUpdate(nr) /\ UNCHANGED caller

Exhausted == nr.pc = "exhausted" /\ nr' = NRExhausted(nr) /\ UNCHANGED caller

(***************************************************************************)
(* A single call of newton_raphson_4bar, on any of the inputs above.       *)
(***************************************************************************)

Init ==
    /\ \E r \in {FigureLinkage, SmallLinkage}, t \in SolveTheta2, g \in SolveGuesses,
          tr \in BOOLEAN :
          nr = NRCall(r, t, g, tr)
    /\ sweep = NoSweep
    /\ an = NoAnalytical
    /\ analytical_calls = <<>>
    /\ newton_calls = <<>>
    /\ first = NoCall

Next == Eval \/ Track \/ Check \/ Jacobian \/ Update \/ Exhausted

Spec == Init /\ [][Next]_vars

(***************************************************************************)
(* The same call made twice: with track_convergence=True, then with        *)
(* track_convergence=False.                                                *)
(***************************************************************************)

InitTwice ==
    /\ \E r \in {FigureLinkage, SmallLinkage}, t \in SolveTheta2, g \in SolveGuesses :
          nr = NRCall(r, t, g, TRUE)
    /\ sweep = NoSweep
    /\ an = NoAnalytical
    /\ analytical_calls = <<>>
    /\ newton_calls = <<>>
    /\ first = NoCall

CallAgain ==
    /\ nr.pc = "returned"
    /\ first = NoCall
    /\ first' = nr
    /\ nr' = NRCall(nr.r, nr.theta2_deg, nr.init_guess, FALSE)
    /\ UNCHANGED <<an, sweep, analytical_calls, newton_calls>>

NextTwice == Eval \/ Track \/ Check \/ Jacobian \/ Update \/ Exhausted \/ CallAgain

SpecTwice == InitTwice /\ [][NextTwice]_vars

(***************************************************************************)
(* The sweep, on any of the linkages and ranges above.                     *)
(***************************************************************************)

InitSweep ==
    /\ \E r \in SweepLinkages, range \in SweepRanges : sweep = SweepEnter(r, range)
    /\ nr = NoCall
    /\ an = NoAnalytical
    /\ analytical_calls = <<>>
    /\ newton_calls = <<>>
    /\ first = NoCall

\* analytical_solution(r1, r2, r3, r4, theta2_range[0])
Analytical ==
    /\ sweep.pc = "analytical"
    /\ an' = AnalyticalCall(sweep.r, sweep.theta2_range[1])
    /\ analytical_calls' = Append(analytical_calls, <<sweep.r, sweep.theta2_range[1]>>)
    /\ sweep' = [sweep EXCEPT !.pc = "unpack"]
    /\ UNCHANGED <<nr, newton_calls, first>>

CoefABC ==
    /\ an.pc = "ABC" /\ an' = AnalyticalABC(an)
    /\ UNCHANGED <<nr, sweep, analytical_calls, newton_calls, first>>

FirstDiscriminant ==
    /\ an.pc = "discriminant" /\ an' = AnalyticalDiscriminant(an)
    /\ UNCHANGED <<nr, sweep, analytical_calls, newton_calls, first>>

Theta4 ==
    /\ an.pc = "theta4" /\ an' = AnalyticalTheta4(an)
    /\ UNCHANGED <<nr, sweep, analytical_calls, newton_calls, first>>

CoefDEF ==
    /\ an.pc = "DEF" /\ an' = AnalyticalDEF(an)
    /\ UNCHANGED <<nr, sweep, analytical_calls, newton_calls, first>>

SecondDiscriminant ==
    /\ an.pc = "discriminant2" /\ an' = AnalyticalDiscriminant2(an)
    /\ UNCHANGED <<nr, sweep, analytical_calls, newton_calls, first>>

Theta3 ==
    /\ an.pc = "theta3" /\ an' = AnalyticalTheta3(an)
    /\ UNCHANGED <<nr, sweep, analytical_calls, newton_calls, first>>

\* t3_init, t4_init = <what the call returned>
Unpack ==
    /\ sweep.pc = "unpack"
    /\ an.pc = "returned"
    /\ sweep' = SweepUnpack(sweep, an.ret)
    /\ UNCHANGED <<nr, an, analytical_calls, newton_calls, first>>

Seed ==
    /\ sweep.pc = "seed"
    /\ sweep' = SweepSeed(sweep)
    /\ UNCHANGED <<nr, an, analytical_calls, newton_calls, first>>

\* for t2 in theta2_range: newton_raphson_4bar(r1, r2, r3, r4, t2, current_guess)
Call ==
    /\ sweep.pc = "loop"
    /\ sweep.i <= Len(sweep.theta2_range)
    /\ nr' = NRCall(sweep.r, sweep.theta2_range[sweep.i], sweep.current_guess, FALSE)
    /\ sweep' = [sweep EXCEPT !.pc = "solving"]
    /\ UNCHANGED <<an, analytical_calls, newton_calls, first>>

\* t3, t4, converged = <what the call returned>, and the rest of the body.
Record ==
    /\ sweep.pc = "solving"
    /\ nr.pc = "returned"
    /\ sweep' = SweepRecord(sweep, nr.ret)
    /\ newton_calls' = Append(newton_calls, nr)
    /\ nr' = NoCall
    /\ UNCHANGED <<an, analytical_calls, first>>

\* The loop has used up theta2_range.
Finish ==
    /\ sweep.pc = "loop"
    /\ sweep.i > Len(sweep.theta2_range)
    /\ sweep' = [sweep EXCEPT !.pc = "done"]
    /\ UNCHANGED <<nr, an, analytical_calls, newton_calls, first>>

NextSweep ==
    \/ Analytical \/ CoefABC \/ FirstDiscriminant \/ Theta4 \/ CoefDEF
    \/ SecondDiscriminant
    \/ Theta3 \/ Unpack \/ Seed \/ Call \/ Record \/ Finish
    \/ Eval \/ Track \/ Check \/ Jacobian \/ Update \/ Exhausted

SpecSweep == InitSweep /\ [][NextSweep]_vars

(***************************************************************************)
(* Properties of a call of newton_raphson_4bar                             *)
(***************************************************************************)

Returned == nr.pc = "returned"

\* The angles of a returned tuple.
Angles(ret) == <<ret[1], ret[2]>>

\* The error norm of the last entry of a history.
LastNorm(history) == history[Len(history)][2]

\* C1: a call that returns converged=true returns exactly the angles whose
\* residuals the returning iteration evaluated; those residuals, which are
\* the residuals of the returned angles, satisfy |f1| < 1e-9 and |f2| < 1e-9;
\* and no Newton update lies between the passing check and the return (the
\* updates done are those of the earlier iterations).
C1_RoundTrip ==
    (Returned /\ nr.ret[3]) =>
        /\ nr.exit = "converged"
        /\ Angles(nr.ret) = nr.at_start
        /\ nr.f1 = F1(nr.r, nr.theta2, nr.ret[1], nr.ret[2])
        /\ nr.f2 = F2(nr.r, nr.theta2, nr.ret[1], nr.ret[2])
        /\ FLt(FAbs(nr.f1), FromRat(1, 1000000000))
        /\ FLt(FAbs(nr.f2), FromRat(1, 1000000000))
        /\ nr.updates = nr.evals - 1

\* A call has converged after at least one Newton update.
C1_Witness == Returned /\ nr.ret[3] /\ nr.updates >= 1 /\ Angles(nr.ret) # nr.init_guess

\* C6 (in every state): with track_convergence=True the history holds one
\* entry per iteration begun, indexed 0, 1, ..., n-1 with n <= 100; the entry
\* of an iteration is there when its convergence check is made and carries
\* its error norm; at every return the history is not empty and is what the
\* call returns.
C6_HistoryState ==
    nr.track_convergence =>
        /\ Len(nr.history) <= 100
        /\ \A j \in 1..Len(nr.history) : nr.history[j][1] = j - 1
        /\ nr.pc = "track" => Len(nr.history) = nr.evals - 1
        /\ nr.pc \in {"check", "jacobian", "update", "returned"} =>
              /\ Len(nr.history) = nr.evals
              /\ nr.history[Len(nr.history)] = <<nr.iteration, nr.error_norm>>
        /\ nr.pc \in {"eval", "exhausted"} => Len(nr.history) = nr.evals
        /\ Returned =>
              /\ nr.exit \in {"converged", "singular", "exhausted"}
              /\ Len(nr.history) >= 1
              /\ Len(nr.ret) = 4
              /\ nr.ret[4] = nr.history

\* C6 (in every step): the history is only ever appended to.
C6_HistoryStep ==
    nr.track_convergence =>
        /\ Len(nr'.history) >= Len(nr.history)
        /\ SubSeq(nr'.history, 1, Len(nr.history)) = nr.history

\* C6: convergence history completeness.
C6_HistoryComplete == [](C6_HistoryState) /\ [][C6_HistoryStep]_vars

\* A tracked call has returned on each path: exhausted with 100 entries.
C6_Witness ==
    Returned /\ nr.track_convergence /\ nr.exit = "exhausted" /\ Len(nr.ret[4]) = 100

\* C7 as claimed: the last error norm recorded by a tracked call that
\* returns converged=true is < 1e-9.
C7_FinalNormBelowTol ==
    (Returned /\ nr.track_convergence /\ nr.ret[3]) =>
        FLt(LastNorm(nr.ret[4]), FromRat(1, 1000000000))

\* C7 as amended: the last error norm recorded by a tracked call that
\* returns converged=true is that of two residuals each below 1e-9 in
\* absolute value, and so is < 2e-9.
C7_FinalNormBelowTwiceTol ==
    (Returned /\ nr.track_convergence /\ nr.ret[3]) =>
        /\ LastNorm(nr.ret[4]) = ErrorNorm(nr.f1, nr.f2)
        /\ FLt(FAbs(nr.f1), FromRat(1, 1000000000))
        /\ FLt(FAbs(nr.f2), FromRat(1, 1000000000))
        /\ FLt(LastNorm(nr.ret[4]), FromRat(2, 1000000000))

\* A tracked call has converged with a last recorded norm of 1e-9 or more.
C7_Witness ==
    /\ Returned /\ nr.track_convergence /\ nr.ret[3]
    /\ ~FLt(LastNorm(nr.ret[4]), FromRat(1, 1000000000))

\* C8: an iteration whose residual check does not pass and whose |det| is
\* < 1e-9 never reaches the Newton update; the call returns converged=false
\* from that iteration, and the angles it returns are those held when the
\* iteration began (the updates done are those of the earlier iterations).
C8_SingularExit ==
    /\ nr.pc = "update" => ~FLt(FAbs(nr.det), FromRat(1, 1000000000))
    /\ nr.exit = "singular" =>
          /\ Returned
          /\ ~WithinTol(nr.f1, nr.f2)
          /\ FLt(FAbs(nr.det), FromRat(1, 1000000000))
          /\ nr.ret[3] = FALSE
          /\ Angles(nr.ret) = nr.at_start
          /\ nr.updates = nr.evals - 1

\* A call has returned from a singular iteration that was not its first.
C8_Witness ==
    Returned /\ nr.exit = "singular" /\ nr.updates >= 1 /\ Angles(nr.ret) # nr.init_guess

\* The steps a call can still take are at most Variant: five for each of
\* the 100 iterations not yet begun, and those left of the current one.
Variant(fr) ==
    IF fr.pc = "returned" THEN 0
    ELSE 5 * (100 - fr.evals)
           + (CASE fr.pc = "track" -> 5 [] fr.pc = "check" -> 4
                [] fr.pc = "jacobian" -> 3 [] fr.pc = "update" -> 2
                [] fr.pc = "eval" -> 1 [] fr.pc = "exhausted" -> 1)

\* C9 (in every state): a call makes at most 100 residual evaluations and at
\* most 100 Newton updates; a call that returns without having converged or
\* met a singular iteration has made 100 evaluations and 100 updates and
\* returns converged=false with the angles the 100th update produced.
C9_Bounds ==
    /\ nr.evals <= 100
    /\ nr.updates <= nr.evals
    /\ nr.iteration < 100
    /\ Variant(nr) >= 0
    /\ Returned <=> Variant(nr) = 0
    /\ (Returned /\ nr.exit \notin {"converged", "singular"}) =>
          /\ nr.exit = "exhausted"
          /\ nr.evals = 100
          /\ nr.updates = 100
          /\ nr.ret[3] = FALSE
          /\ nr.ret[1] = FAdd(nr.at_start[1], DTheta3(nr))
          /\ nr.ret[2] = FAdd(nr.at_start[2], DTheta4(nr))

\* C9: bounded termination and exhaustion; every step of a call brings its
\* return nearer.
C9_BoundedTermination == [](C9_Bounds) /\ [][Variant(nr') < Variant(nr)]_vars

\* A call has exhausted its iterations and returns angles that the last
\* update changed.
C9_Witness ==
    Returned /\ nr.exit = "exhausted" /\ nr.updates = 100 /\ Angles(nr.ret) # nr.at_start

(***************************************************************************)
(* Properties of the call made twice                                       *)
(***************************************************************************)

\* C10: the call with track_convergence=False takes the same exit after the
\* same number of iterations as the call with track_convergence=True on the
\* same arguments and returns the same theta3, theta4 and converged; only
\* the tracked call returns a history, as a fourth result.
C10_TrackingObservationOnly ==
    (first # NoCall /\ Returned) =>
        /\ first.track_convergence /\ ~nr.track_convergence
        /\ first.r = nr.r /\ first.theta2_deg = nr.theta2_deg
        /\ first.init_guess = nr.init_guess
        /\ nr.exit = first.exit
        /\ nr.evals = first.evals
        /\ nr.updates = first.updates
        /\ nr.ret[1] = first.ret[1]
        /\ nr.ret[2] = first.ret[2]
        /\ nr.ret[3] = first.ret[3]
        /\ Len(first.ret) = 4 /\ Len(nr.ret) = 3
        /\ Len(first.ret[4]) = first.evals

\* Both calls have returned, converged after several iterations.
C10_Witness ==
    first # NoCall /\ Returned /\ nr.exit = "converged" /\ nr.evals >= 2

(***************************************************************************)
(* Properties of the sweep                                                 *)
(***************************************************************************)

\* The sweep has seeded its guess.
Seeded == sweep.pc \in {"loop", "solving", "done"}

\* The seed: the guess the first sample is (to be) solved from.
SeedUsed ==
    IF newton_calls # <<>> THEN newton_calls[1].init_guess
    ELSE IF sweep.pc = "solving" THEN nr.init_guess
    ELSE sweep.current_guess

\* The angles returned by the latest of the first j calls that converged,
\* or the seed if none of them did.
RECURSIVE LatestConverged(_)
LatestConverged(j) ==
    IF j = 0 THEN SeedUsed
    ELSE IF newton_calls[j].ret[3] THEN Angles(newton_calls[j].ret)
    ELSE LatestConverged(j - 1)

\* C2: after every prefix of k samples both output sequences have length k,
\* and at the end the length of the input; entry j belongs to sample j of
\* the input; it is NaN in both sequences if and only if the solve of
\* sample j returned converged=false, and otherwise holds the degree
\* conversion of the angles that solve returned.
C2_SweepShape ==
    /\ Len(sweep.theta3_sol) = Len(newton_calls)
    /\ Len(sweep.theta4_sol) = Len(newton_calls)
    /\ Seeded => Len(newton_calls) = sweep.i - 1
    /\ sweep.pc = "done" => Len(newton_calls) = Len(sweep.theta2_range)
    /\ \A j \in 1..Len(newton_calls) :
          /\ newton_calls[j].theta2_deg = sweep.theta2_range[j]
          /\ (IsNaN(sweep.theta3_sol[j]) /\ IsNaN(sweep.theta4_sol[j]))
                <=> ~newton_calls[j].ret[3]
          /\ (IsNaN(sweep.theta3_sol[j]) \/ IsNaN(sweep.theta4_sol[j]))
                <=> ~newton_calls[j].ret[3]
          /\ newton_calls[j].ret[3] =>
                /\ sweep.theta3_sol[j] = FDegrees(newton_calls[j].ret[1])
                /\ sweep.theta4_sol[j] = FDegrees(newton_calls[j].ret[2])

\* A sweep of three samples has ended with a NaN entry between two angles.
C2_Witness ==
    /\ sweep.pc = "done" /\ Len(sweep.theta3_sol) = 3
    /\ ~IsNaN(sweep.theta3_sol[1]) /\ IsNaN(sweep.theta3_sol[2])
    /\ ~IsNaN(sweep.theta3_sol[3])

\* C3: the guess passed for every sample after the first is the angles
\* returned by the most recent earlier sample that converged, or the seed if
\* none did; current_guess is left as it was by a sample that does not
\* converge and is exactly the returned angles after one that converges.
C3_WarmStart ==
    /\ \A j \in 1..Len(newton_calls) :
          newton_calls[j].init_guess = LatestConverged(j - 1)
    /\ sweep.pc = "solving" => nr.init_guess = LatestConverged(Len(newton_calls))
    /\ Seeded => sweep.current_guess = LatestConverged(Len(newton_calls))

\* A sample has failed with angles other than its guess, after a converged
\* sample, and the next sample was solved from the converged one's angles.
C3_Witness ==
    /\ Len(newton_calls) = 3
    /\ newton_calls[1].ret[3] /\ ~newton_calls[2].ret[3]
    /\ Angles(newton_calls[2].ret) # newton_calls[2].init_guess
    /\ newton_calls[3].init_guess = Angles(newton_calls[1].ret)
    /\ newton_calls[3].init_guess # SeedUsed

\* analytical_solution has reported no solution: a component it returned is None.
NoSolution == an.ret[1] = None \/ an.ret[2] = None

\* C4: analytical_solution is called exactly once, for the first sample.
\* It reports no solution exactly when a discriminant is negative; then the
\* seed is (radians(45), radians(45)), and otherwise the seed is the pair
\* returned.  The seed has no None component, newton_raphson_4bar is called
\* for every sample, and what the sweep records for a sample is converged
\* or failed as that call returned.
C4_FirstSampleSeeding ==
    /\ Len(analytical_calls) <= 1
    /\ sweep.pc \notin {"idle", "analytical"} =>
          analytical_calls = <<(<<sweep.r, sweep.theta2_range[1]>>)>>
    /\ Seeded =>
          /\ an.pc = "returned"
          /\ NoSolution <=>
                \/ FLt(an.discriminant, Zero)
                \/ (an.discriminant2 # None /\ FLt(an.discriminant2, Zero))
          /\ NoSolution => SeedUsed = <<FRadians(FromInt(45)), FRadians(FromInt(45))>>
          /\ ~NoSolution => SeedUsed = <<an.ret[1], an.ret[2]>>
          /\ SeedUsed[1] # None /\ SeedUsed[2] # None
    /\ sweep.pc = "done" =>
          /\ Len(newton_calls) = Len(sweep.theta2_range)
          /\ \A j \in 1..Len(newton_calls) :
                /\ newton_calls[j].theta2_deg = sweep.theta2_range[j]
                /\ IsNaN(sweep.theta3_sol[j]) <=> ~newton_calls[j].ret[3]

\* A sweep seeded with the default guess after the partial return
\* (theta4, None) has ended.
C4_Witness ==
    /\ sweep.pc = "done" /\ Len(newton_calls) >= 2
    /\ an.ret[1] # None /\ an.ret[2] = None
    /\ SeedUsed = DefaultGuess

\* C5: when the closed form of the first sample has A = 0 or D = 0, the
\* sweep seeds the solver with the default guess (radians(45), radians(45)).
C5_DivisionSingularityFallsBack ==
    (Seeded /\ (IsZero(an.A) \/ IsZero(an.D))) =>
        SeedUsed = <<FRadians(FromInt(45)), FRadians(FromInt(45))>>
====
